---- MODULE Spec2Model ----
(***************************************************************************)
(* The shader build pipeline of the two example programs:                  *)
(*   src/main.cpp          compileShader, createShaderProgram, main        *)
(*   src/main_vxworks.cpp  loadShader,    createProgram,       vx_main     *)
(* The variable `variant` says which of the two programs is running.  The  *)
(* graphics driver is modelled by its object table: glCreateShader and     *)
(* glCreateProgram hand out a name that is not in use, glDeleteShader and  *)
(* glDeleteProgram end the life of the object, the compile status and the  *)
(* link status are functions of the source text, and the length of the     *)
(* info log is the driver's choice.  Object creation succeeds (a nonzero   *)
(* name is returned), and an object counts as destroyed from the           *)
(* glDeleteShader / glDeleteProgram call on it.                            *)
(***************************************************************************)
EXTENDS Integers, Sequences, FiniteSets, TLC

\* ------------------------------------------------------------- bounds
\* How many times a caller calls the build function in one behaviour.
MaxBuilds == 2
\* How many frames the desktop host renders before the window is closed.
MaxFrames == 2

\* char infoLog[512] of main.cpp
LogBufSize == 512

\* Three objects per build at most, so the driver never runs out of names.
MaxNames == 3 * (MaxBuilds + 1)
Names == 1 .. MaxNames

Variants == {"glfw", "vxworks"}

\* Shader source texts, by what the driver makes of them.
VtxSources == {"vGood", "vBad"}
FragSources == {"fGood", "fBad", "fMismatch"}
\* GL_INFO_LOG_LENGTH as the driver may report it: no log, an empty log
\* (the terminating NUL alone), a short log, a log longer than LogBufSize.
InfoLens == {0, 1, 2, LogBufSize + 1}

VARIABLES
    variant,        \* which program: "glfw" (main.cpp) or "vxworks"
    reuse,          \* driver policy: TRUE hands out the lowest free name again
    nextName,       \* driver: the next never-used name
    objs,           \* driver: the object table, by name
    stderr,         \* the error channel: the diagnostics written so far
    calls,          \* the GL calls of the current build, in order
    acct,           \* creations, deletions and diagnostics of the current build
    builds,         \* number of build calls started
    pc,             \* position inside the build function
    stage,          \* compileShader's `type` argument
    vtxSrc,         \* build's argument vtxSrc
    fragSrc,        \* build's argument fragSrc
    shader,         \* compileShader's local `shader`
    success,        \* the local `success` / `compiled` / `linked`
    csNew,          \* shader objects created by the current compileShader call
    csRet,          \* compileShader's return value
    vertexShader,   \* build's local vertexShader / vtxShader
    fragmentShader, \* build's local fragmentShader / fragShader
    program,        \* build's local program
    ret,            \* build's return value
    rets,           \* the return values of all finished builds, in order
    hpc,            \* position inside the host (main / vx_main)
    shaderProgram,  \* the host's local shaderProgram / program
    shouldClose,    \* glfwWindowShouldClose(window)
    frames,         \* frames drawn by the host
    hostCalls,      \* the host's GL calls on the program, with the handle's state
    tick,           \* parity of the kernel tick clock advanced by taskDelay
    exitCode        \* the host's return value, -2 while running

drv == <<reuse, nextName, objs>>
hostVars == <<hpc, shaderProgram, shouldClose, frames, hostCalls, tick, exitCode>>
vars == <<variant, reuse, nextName, objs, stderr, calls, acct, builds, pc,
          stage, vtxSrc, fragSrc, shader, success, csNew, csRet, vertexShader,
          fragmentShader, program, ret, rets, hpc, shaderProgram, shouldClose,
          frames, hostCalls, tick, exitCode>>

\* ------------------------------------------------------------- driver
NoObj == [kind |-> "none", live |-> FALSE, build |-> 0, src |-> "", ok |-> FALSE,
          att |-> {}]

\* lens: the info log length the driver held for each failed compile or link.
ZeroAcct == [shCreated |-> 0, shDeleted |-> 0, prCreated |-> 0, prDeleted |-> 0,
             cDiags |-> 0, lDiags |-> 0, lens |-> <<>>]

Live == {n \in Names : objs[n].live}
LiveShaders == {n \in Live : objs[n].kind = "shader"}
LivePrograms == {n \in Live : objs[n].kind = "program"}

Min(S) == CHOOSE x \in S : \A y \in S : x <= y

\* The compile status the driver reports for a source text.
Compiles(src) == src \in {"vGood", "fGood", "fMismatch"}
\* The link status the driver reports for a set of attached shaders.
Links(srcs) == "fMismatch" \notin srcs

\* The name glCreateShader / glCreateProgram returns: never one in use.
GenName == IF reuse THEN Min(Names \ Live) ELSE nextName

\* glCreateShader(type); glShaderSource(shader, 1, &source, nullptr)
GLCreateShader(n, src) ==
    /\ objs' = [objs EXCEPT ![n] = [kind |-> "shader", live |-> TRUE, build |-> builds,
                                    src |-> src, ok |-> FALSE, att |-> {}]]
    /\ nextName' = IF n >= nextName THEN n + 1 ELSE nextName
    /\ acct' = [acct EXCEPT !.shCreated = @ + 1]

\* The object table after glDeleteShader(n) / glDeleteProgram(n); the name 0
\* is silently ignored.
Deleted(table, n) == IF n \in Names THEN [table EXCEPT ![n].live = FALSE] ELSE table

\* The text a diagnostic carries after the prefix: glGet*InfoLog(obj, bufSize,
\* nullptr, infoLog) copies at most bufSize - 1 characters of the log.
LogChars(infoLen, bufSize) ==
    LET have == IF infoLen > 0 THEN infoLen - 1 ELSE 0
    IN  IF have < bufSize - 1 THEN have ELSE bufSize - 1

Diag(kind, obj, chars) == [kind |-> kind, obj |-> obj, chars |-> chars, build |-> builds]

Call(fn, n) == <<fn, n>>

\* ------------------------------------------------ compileShader / loadShader
notCompile == <<variant, reuse, stderr, builds, stage, vtxSrc, fragSrc, vertexShader,
                fragmentShader, program, ret, rets, hostVars>>

StageSrc == IF stage = "vertex" THEN vtxSrc ELSE fragSrc

\* GLuint shader = glCreateShader(type); glShaderSource(shader, 1, &source, nullptr);
ShaderCreate ==
    /\ pc = "cs_create"
    /\ LET n == GenName
       IN  /\ GLCreateShader(n, StageSrc)
           /\ shader' = n
           /\ calls' = calls \o <<Call("glCreateShader", n), Call("glShaderSource", n)>>
    /\ csNew' = csNew + 1
    /\ pc' = "cs_compile"
    /\ UNCHANGED <<success, csRet, notCompile>>

\* glCompileShader(shader); glGetShaderiv(shader, GL_COMPILE_STATUS, &success);
ShaderCompile ==
    /\ pc = "cs_compile"
    /\ objs' = [objs EXCEPT ![shader].ok = Compiles(objs[shader].src)]
    /\ success' = Compiles(objs[shader].src)
    /\ calls' = calls \o <<Call("glCompileShader", shader), Call("glGetShaderiv", shader)>>
    /\ pc' = "cs_test"
    /\ UNCHANGED <<nextName, acct, shader, csNew, csRet, notCompile>>

\* return shader;
ShaderReturn ==
    /\ pc = "cs_test"
    /\ success
    /\ csRet' = shader
    /\ pc' = "cs_done"
    /\ UNCHANGED <<nextName, objs, acct, calls, shader, success, csNew, notCompile>>

compileShader_create == variant = "glfw" /\ ShaderCreate
compileShader_compile == variant = "glfw" /\ ShaderCompile
compileShader_return == variant = "glfw" /\ ShaderReturn

\* compileShader's failure branch without its glDeleteShader(shader).
compileShader_fail_leak ==
    /\ variant = "glfw"
    /\ pc = "cs_test"
    /\ ~success
    /\ \E infoLen \in InfoLens :
          /\ stderr' = Append(stderr, Diag("compile", shader, LogChars(infoLen, LogBufSize)))
          /\ acct' = [acct EXCEPT !.cDiags = @ + 1, !.lens = Append(@, infoLen)]
    /\ calls' = Append(calls, Call("glGetShaderInfoLog", shader))
    /\ csRet' = 0
    /\ pc' = "cs_done"
    /\ UNCHANGED <<variant, reuse, nextName, objs, builds, stage, vtxSrc, fragSrc, shader,
                   success, csNew, vertexShader, fragmentShader, program, ret, rets,
                   hostVars>>

\* if (!success) { char infoLog[512]; glGetShaderInfoLog(shader, 512, nullptr, infoLog);
\*   std::cerr << "ERROR::SHADER::COMPILATION_FAILED\n" << infoLog << std::endl;
\*   glDeleteShader(shader); return 0; }
compileShader_fail ==
    /\ variant = "glfw"
    /\ pc = "cs_test"
    /\ ~success
    /\ \E infoLen \in InfoLens :
          /\ stderr' = Append(stderr, Diag("compile", shader, LogChars(infoLen, LogBufSize)))
          /\ acct' = [acct EXCEPT !.cDiags = @ + 1, !.shDeleted = @ + 1,
                                  !.lens = Append(@, infoLen)]
    /\ objs' = Deleted(objs, shader)
    /\ calls' = calls \o <<Call("glGetShaderInfoLog", shader), Call("glDeleteShader", shader)>>
    /\ csRet' = 0
    /\ pc' = "cs_done"
    /\ UNCHANGED <<variant, reuse, nextName, builds, stage, vtxSrc, fragSrc, shader,
                   success, csNew, vertexShader, fragmentShader, program, ret, rets,
                   hostVars>>

loadShader_create == variant = "vxworks" /\ ShaderCreate
loadShader_compile == variant = "vxworks" /\ ShaderCompile
loadShader_return == variant = "vxworks" /\ ShaderReturn

\* if (!compiled) { GLint infoLen = 0; glGetShaderiv(shader, GL_INFO_LOG_LENGTH, &infoLen);
\*   if (infoLen > 1) { ... std::cerr << "Error compiling shader:\n" << infoLog ... }
\*   glDeleteShader(shader); return 0; }
loadShader_fail ==
    /\ variant = "vxworks"
    /\ pc = "cs_test"
    /\ ~success
    /\ \E infoLen \in InfoLens :
          IF infoLen > 1
          THEN /\ stderr' = Append(stderr, Diag("compile", shader, LogChars(infoLen, infoLen)))
               /\ acct' = [acct EXCEPT !.cDiags = @ + 1, !.shDeleted = @ + 1,
                                       !.lens = Append(@, infoLen)]
               /\ calls' = calls \o <<Call("glGetShaderiv", shader),
                                      Call("glGetShaderInfoLog", shader),
                                      Call("glDeleteShader", shader)>>
          ELSE /\ stderr' = stderr
               /\ acct' = [acct EXCEPT !.shDeleted = @ + 1, !.lens = Append(@, infoLen)]
               /\ calls' = calls \o <<Call("glGetShaderiv", shader),
                                      Call("glDeleteShader", shader)>>
    /\ objs' = Deleted(objs, shader)
    /\ csRet' = 0
    /\ pc' = "cs_done"
    /\ UNCHANGED <<variant, reuse, nextName, builds, stage, vtxSrc, fragSrc, shader,
                   success, csNew, vertexShader, fragmentShader, program, ret, rets,
                   hostVars>>

\* ------------------------------------------ createShaderProgram / createProgram
notBuild == <<variant, reuse, stderr, builds, vtxSrc, fragSrc, shader, csRet, csNew,
              hostVars>>

\* The call with `program` kept in a static variable and the program of the
\* previous call deleted on entry.
Enter_static(v, f) ==
    /\ builds' = builds + 1
    /\ vtxSrc' = v
    /\ fragSrc' = f
    /\ stage' = "vertex"
    /\ pc' = "cs_create"
    /\ calls' = <<Call("glDeleteProgram", ret)>>
    /\ acct' = ZeroAcct
    /\ csNew' = 0
    /\ shader' = 0
    /\ csRet' = 0
    /\ success' = FALSE
    /\ vertexShader' = 0
    /\ fragmentShader' = 0
    /\ program' = 0
    /\ ret' = 0
    /\ objs' = Deleted(objs, ret)
    /\ UNCHANGED <<variant, reuse, nextName, stderr, rets>>

\* The call itself: the arguments are bound and the body starts with the
\* first compileShader call, on the vertex source.
Enter(v, f) ==
    /\ builds' = builds + 1
    /\ vtxSrc' = v
    /\ fragSrc' = f
    /\ stage' = "vertex"
    /\ pc' = "cs_create"
    /\ calls' = <<>>
    /\ acct' = ZeroAcct
    /\ csNew' = 0
    /\ shader' = 0
    /\ csRet' = 0
    /\ success' = FALSE
    /\ vertexShader' = 0
    /\ fragmentShader' = 0
    /\ program' = 0
    /\ ret' = 0
    /\ UNCHANGED <<variant, drv, stderr, rets>>

\* The build returning 0 as soon as the vertex stage failed, without
\* compiling the fragment stage.
VertexDone_earlyOut ==
    /\ pc = "cs_done"
    /\ stage = "vertex"
    /\ vertexShader' = csRet
    /\ IF csRet = 0
       THEN /\ ret' = 0
            /\ rets' = Append(rets, 0)
            /\ pc' = "returned"
            /\ UNCHANGED <<stage, csNew>>
       ELSE /\ stage' = "fragment"
            /\ csNew' = 0
            /\ pc' = "cs_create"
            /\ UNCHANGED <<ret, rets>>
    /\ UNCHANGED <<variant, drv, stderr, calls, acct, builds, vtxSrc, fragSrc, shader,
                   success, csRet, fragmentShader, program, hostVars>>

\* GLuint vertexShader = compileShader(GL_VERTEX_SHADER, vtxSrc); then the
\* call compileShader(GL_FRAGMENT_SHADER, fragSrc) starts.
VertexDone ==
    /\ pc = "cs_done"
    /\ stage = "vertex"
    /\ vertexShader' = csRet
    /\ stage' = "fragment"
    /\ csNew' = 0
    /\ pc' = "cs_create"
    /\ UNCHANGED <<variant, drv, stderr, calls, acct, builds, vtxSrc, fragSrc, shader,
                   success, csRet, fragmentShader, program, ret, rets, hostVars>>

\* GLuint fragmentShader = compileShader(GL_FRAGMENT_SHADER, fragSrc);
FragmentDone ==
    /\ pc = "cs_done"
    /\ stage = "fragment"
    /\ fragmentShader' = csRet
    /\ pc' = "guard"
    /\ UNCHANGED <<variant, drv, stderr, calls, acct, builds, stage, vtxSrc, fragSrc,
                   shader, success, csNew, csRet, vertexShader, program, ret, rets,
                   hostVars>>

\* The guard with && in place of ||.
Guard_and ==
    /\ pc = "guard"
    /\ IF vertexShader = 0 /\ fragmentShader = 0
       THEN /\ ret' = 0
            /\ rets' = Append(rets, 0)
            /\ pc' = "returned"
       ELSE /\ pc' = "create"
            /\ UNCHANGED <<ret, rets>>
    /\ UNCHANGED <<drv, calls, acct, stage, success, vertexShader, fragmentShader,
                   program, notBuild>>

\* if (!vertexShader || !fragmentShader) { return 0; }
Guard ==
    /\ pc = "guard"
    /\ IF vertexShader = 0 \/ fragmentShader = 0
       THEN /\ ret' = 0
            /\ rets' = Append(rets, 0)
            /\ pc' = "returned"
       ELSE /\ pc' = "create"
            /\ UNCHANGED <<ret, rets>>
    /\ UNCHANGED <<drv, calls, acct, stage, success, vertexShader, fragmentShader,
                   program, notBuild>>

\* GLuint program = glCreateProgram(); glAttachShader(program, vertexShader);
\* glAttachShader(program, fragmentShader);  (glAttachShader attaches nothing
\* for a name that is no shader object.)
CreateAttach ==
    /\ pc = "create"
    /\ LET n == GenName
       IN  /\ objs' = [objs EXCEPT ![n] = [kind |-> "program", live |-> TRUE,
                                           build |-> builds, src |-> "", ok |-> FALSE,
                                           att |-> {vertexShader, fragmentShader}
                                                       \cap LiveShaders]]
           /\ nextName' = IF n >= nextName THEN n + 1 ELSE nextName
           /\ acct' = [acct EXCEPT !.prCreated = @ + 1]
           /\ program' = n
           /\ calls' = calls \o <<Call("glCreateProgram", n),
                                  Call("glAttachShader", vertexShader),
                                  Call("glAttachShader", fragmentShader)>>
    /\ pc' = "link"
    /\ UNCHANGED <<stage, success, vertexShader, fragmentShader, ret, rets, notBuild>>

\* glLinkProgram(program); glGetProgramiv(program, GL_LINK_STATUS, &success);
Link ==
    /\ pc = "link"
    /\ LET ok == Links({objs[s].src : s \in objs[program].att})
       IN  /\ objs' = [objs EXCEPT ![program].ok = ok]
           /\ success' = ok
    /\ calls' = calls \o <<Call("glLinkProgram", program), Call("glGetProgramiv", program)>>
    /\ pc' = "linked"
    /\ UNCHANGED <<nextName, acct, stage, vertexShader, fragmentShader, program, ret,
                   rets, notBuild>>

createShaderProgram_vertexDone == variant = "glfw" /\ VertexDone
createShaderProgram_fragmentDone == variant = "glfw" /\ FragmentDone
createShaderProgram_guard == variant = "glfw" /\ Guard
createShaderProgram_createAttach == variant = "glfw" /\ CreateAttach
createShaderProgram_link == variant = "glfw" /\ Link

\* The link failure branch without its `program = 0;`.
createShaderProgram_linkFail_keep ==
    /\ variant = "glfw"
    /\ pc = "linked"
    /\ ~success
    /\ \E infoLen \in InfoLens :
          /\ stderr' = Append(stderr, Diag("link", program, LogChars(infoLen, LogBufSize)))
          /\ acct' = [acct EXCEPT !.lDiags = @ + 1, !.prDeleted = @ + 1,
                                  !.lens = Append(@, infoLen)]
    /\ objs' = Deleted(objs, program)
    /\ calls' = calls \o <<Call("glGetProgramInfoLog", program),
                           Call("glDeleteProgram", program)>>
    /\ pc' = "cleanup"
    /\ UNCHANGED <<variant, reuse, nextName, builds, stage, vtxSrc, fragSrc, shader,
                   success, csNew, csRet, vertexShader, fragmentShader, program, ret,
                   rets, hostVars>>

\* if (!success) { char infoLog[512]; glGetProgramInfoLog(program, 512, nullptr, infoLog);
\*   std::cerr << "ERROR::PROGRAM::LINKING_FAILED\n" << infoLog << std::endl;
\*   glDeleteProgram(program); program = 0; }
createShaderProgram_linkFail ==
    /\ variant = "glfw"
    /\ pc = "linked"
    /\ ~success
    /\ \E infoLen \in InfoLens :
          /\ stderr' = Append(stderr, Diag("link", program, LogChars(infoLen, LogBufSize)))
          /\ acct' = [acct EXCEPT !.lDiags = @ + 1, !.prDeleted = @ + 1,
                                  !.lens = Append(@, infoLen)]
    /\ objs' = Deleted(objs, program)
    /\ calls' = calls \o <<Call("glGetProgramInfoLog", program),
                           Call("glDeleteProgram", program)>>
    /\ program' = 0
    /\ pc' = "cleanup"
    /\ UNCHANGED <<variant, reuse, nextName, builds, stage, vtxSrc, fragSrc, shader,
                   success, csNew, csRet, vertexShader, fragmentShader, ret, rets,
                   hostVars>>

\* glDeleteShader(vertexShader); glDeleteShader(fragmentShader); return program;
createShaderProgram_cleanup ==
    /\ variant = "glfw"
    /\ \/ pc = "cleanup"
       \/ pc = "linked" /\ success
    /\ objs' = Deleted(Deleted(objs, vertexShader), fragmentShader)
    /\ acct' = [acct EXCEPT !.shDeleted = @ + 2]
    /\ calls' = calls \o <<Call("glDeleteShader", vertexShader),
                           Call("glDeleteShader", fragmentShader)>>
    /\ ret' = program
    /\ rets' = Append(rets, program)
    /\ pc' = "returned"
    /\ UNCHANGED <<variant, reuse, nextName, stderr, builds, stage, vtxSrc, fragSrc,
                   shader, success, csNew, csRet, vertexShader, fragmentShader, program,
                   hostVars>>

createProgram_vertexDone == variant = "vxworks" /\ VertexDone
createProgram_fragmentDone == variant = "vxworks" /\ FragmentDone
createProgram_guard == variant = "vxworks" /\ Guard
createProgram_createAttach == variant = "vxworks" /\ CreateAttach
createProgram_link == variant = "vxworks" /\ Link

\* if (!linked) { GLint infoLen = 0; glGetProgramiv(program, GL_INFO_LOG_LENGTH, &infoLen);
\*   if (infoLen > 1) { ... std::cerr << "Error linking program:\n" << infoLog ... }
\*   glDeleteProgram(program); return 0; }
createProgram_linkFail ==
    /\ variant = "vxworks"
    /\ pc = "linked"
    /\ ~success
    /\ \E infoLen \in InfoLens :
          IF infoLen > 1
          THEN /\ stderr' = Append(stderr, Diag("link", program, LogChars(infoLen, infoLen)))
               /\ acct' = [acct EXCEPT !.lDiags = @ + 1, !.prDeleted = @ + 1,
                                       !.lens = Append(@, infoLen)]
               /\ calls' = calls \o <<Call("glGetProgramiv", program),
                                      Call("glGetProgramInfoLog", program),
                                      Call("glDeleteProgram", program)>>
          ELSE /\ stderr' = stderr
               /\ acct' = [acct EXCEPT !.prDeleted = @ + 1, !.lens = Append(@, infoLen)]
               /\ calls' = calls \o <<Call("glGetProgramiv", program),
                                      Call("glDeleteProgram", program)>>
    /\ objs' = Deleted(objs, program)
    /\ ret' = 0
    /\ rets' = Append(rets, 0)
    /\ pc' = "returned"
    /\ UNCHANGED <<variant, reuse, nextName, builds, stage, vtxSrc, fragSrc, shader,
                   success, csNew, csRet, vertexShader, fragmentShader, program,
                   hostVars>>

\* The success path without its glDeleteShader(fragShader).
createProgram_cleanup_leak ==
    /\ variant = "vxworks"
    /\ pc = "linked"
    /\ success
    /\ objs' = Deleted(objs, vertexShader)
    /\ acct' = [acct EXCEPT !.shDeleted = @ + 1]
    /\ calls' = Append(calls, Call("glDeleteShader", vertexShader))
    /\ ret' = program
    /\ rets' = Append(rets, program)
    /\ pc' = "returned"
    /\ UNCHANGED <<variant, reuse, nextName, stderr, builds, stage, vtxSrc, fragSrc,
                   shader, success, csNew, csRet, vertexShader, fragmentShader, program,
                   hostVars>>

\* glDeleteShader(vtxShader); glDeleteShader(fragShader); return program;
createProgram_cleanup ==
    /\ variant = "vxworks"
    /\ pc = "linked"
    /\ success
    /\ objs' = Deleted(Deleted(objs, vertexShader), fragmentShader)
    /\ acct' = [acct EXCEPT !.shDeleted = @ + 2]
    /\ calls' = calls \o <<Call("glDeleteShader", vertexShader),
                           Call("glDeleteShader", fragmentShader)>>
    /\ ret' = program
    /\ rets' = Append(rets, program)
    /\ pc' = "returned"
    /\ UNCHANGED <<variant, reuse, nextName, stderr, builds, stage, vtxSrc, fragSrc,
                   shader, success, csNew, csRet, vertexShader, fragmentShader, program,
                   hostVars>>

\* An external caller calls the build function, with any pair of sources.
createShaderProgram_call ==
    /\ variant = "glfw"
    /\ hpc = "caller"
    /\ pc \in {"idle", "returned"}
    /\ builds < MaxBuilds
    /\ \E v \in VtxSources, f \in FragSources : Enter(v, f)
    /\ UNCHANGED hostVars

createProgram_call ==
    /\ variant = "vxworks"
    /\ hpc = "caller"
    /\ pc \in {"idle", "returned"}
    /\ builds < MaxBuilds
    /\ \E v \in VtxSources, f \in FragSources : Enter(v, f)
    /\ UNCHANGED hostVars

Build ==
    \/ compileShader_create \/ compileShader_compile \/ compileShader_return
    \/ compileShader_fail
    \/ loadShader_create \/ loadShader_compile \/ loadShader_return
    \/ loadShader_fail
    \/ createShaderProgram_vertexDone \/ createShaderProgram_fragmentDone
    \/ createShaderProgram_guard \/ createShaderProgram_createAttach
    \/ createShaderProgram_link \/ createShaderProgram_linkFail
    \/ createShaderProgram_cleanup
    \/ createProgram_vertexDone \/ createProgram_fragmentDone
    \/ createProgram_guard \/ createProgram_createAttach
    \/ createProgram_link \/ createProgram_linkFail
    \/ createProgram_cleanup

InitCommon ==
    /\ variant \in Variants
    /\ reuse \in BOOLEAN
    /\ nextName = 1
    /\ objs = [n \in Names |-> NoObj]
    /\ stderr = <<>>
    /\ calls = <<>>
    /\ acct = ZeroAcct
    /\ builds = 0
    /\ pc = "idle"
    /\ stage = "vertex"
    /\ vtxSrc = "vGood"
    /\ fragSrc = "fGood"
    /\ shader = 0
    /\ success = FALSE
    /\ csNew = 0
    /\ csRet = 0
    /\ vertexShader = 0
    /\ fragmentShader = 0
    /\ program = 0
    /\ ret = 0
    /\ rets = <<>>
    /\ shaderProgram = 0
    /\ shouldClose = FALSE
    /\ frames = 0
    /\ hostCalls = <<>>
    /\ tick = 0
    /\ exitCode = -2

\* The build function under an arbitrary caller.
Init == InitCommon /\ hpc = "caller"

Next == createShaderProgram_call \/ createProgram_call \/ Build

Spec == Init /\ [][Next]_vars

\* ------------------------------------------------------- main / vx_main
buildVars == <<variant, reuse, nextName, stderr, calls, acct, builds, pc, stage, vtxSrc,
               fragSrc, shader, success, csNew, csRet, vertexShader, fragmentShader,
               program, ret, rets>>

\* A GL call of the host on handle n, with whether n names a live program then.
HostCall(fn, n) == <<fn, n, n \in LivePrograms>>

\* Window and context set-up: every failure there returns -1 before the build.
HostSetup ==
    /\ hpc = "start"
    /\ \E ok \in BOOLEAN :
          IF ok
          THEN hpc' = "build" /\ exitCode' = exitCode
          ELSE hpc' = "exit" /\ exitCode' = -1
    /\ UNCHANGED <<buildVars, objs, shaderProgram, shouldClose, frames, hostCalls, tick>>

\* The host's one call of the build function, on its two source literals;
\* what the driver makes of them is the driver's matter.
HostBuild ==
    /\ hpc = "build"
    /\ pc = "idle"
    /\ \E v \in VtxSources, f \in FragSources : Enter(v, f)
    /\ hpc' = "in_build"
    /\ UNCHANGED <<shaderProgram, shouldClose, frames, hostCalls, tick, exitCode>>

\* shaderProgram = <the value returned>; if (!shaderProgram) return -1;
HostCheck ==
    /\ hpc = "in_build"
    /\ pc = "returned"
    /\ shaderProgram' = ret
    /\ IF ret = 0
       THEN hpc' = "exit" /\ exitCode' = -1
       ELSE hpc' = "render" /\ exitCode' = exitCode
    /\ UNCHANGED <<buildVars, objs, shouldClose, frames, hostCalls, tick>>

\* glfwInit, glfwCreateWindow, glewInit
main_setup == variant = "glfw" /\ HostSetup
\* GLuint shaderProgram = createShaderProgram(vertexShaderSrc, fragmentShaderSrc);
main_build == variant = "glfw" /\ HostBuild
\* if (!shaderProgram) { glfwTerminate(); return -1; }
main_check == variant = "glfw" /\ HostCheck

\* One iteration of while (!glfwWindowShouldClose(window)): the escape key or
\* a polled event may ask for the close, the frame is drawn all the same:
\* glUseProgram(shaderProgram); glDrawArrays(GL_TRIANGLES, 0, 3);
main_frame ==
    /\ variant = "glfw"
    /\ hpc = "render"
    /\ ~shouldClose
    /\ hostCalls' = hostCalls \o <<HostCall("glUseProgram", shaderProgram),
                                  HostCall("glDrawArrays", shaderProgram)>>
    /\ frames' = frames + 1
    /\ \E close \in BOOLEAN : shouldClose' = (close \/ frames + 1 >= MaxFrames)
    /\ UNCHANGED <<buildVars, objs, hpc, shaderProgram, tick, exitCode>>

\* The host's cleanup without its glDeleteProgram(shaderProgram).
main_cleanup_noDelete ==
    /\ variant = "glfw"
    /\ hpc = "render"
    /\ shouldClose
    /\ exitCode' = 0
    /\ hpc' = "exit"
    /\ UNCHANGED <<buildVars, objs, shaderProgram, shouldClose, frames, hostCalls, tick>>

\* glDeleteVertexArrays; glDeleteBuffers; glDeleteProgram(shaderProgram);
\* glfwDestroyWindow; glfwTerminate; return 0;
main_cleanup ==
    /\ variant = "glfw"
    /\ hpc = "render"
    /\ shouldClose
    /\ hostCalls' = Append(hostCalls, HostCall("glDeleteProgram", shaderProgram))
    /\ objs' = Deleted(objs, shaderProgram)
    /\ exitCode' = 0
    /\ hpc' = "exit"
    /\ UNCHANGED <<buildVars, shaderProgram, shouldClose, frames, tick>>

\* eglGetDisplay ... eglMakeCurrent, eglQuerySurface
vx_main_setup == variant = "vxworks" /\ HostSetup
\* GLuint program = createProgram(vertexShaderSrc, fragmentShaderSrc);
vx_main_build == variant = "vxworks" /\ HostBuild
\* if (!program) { std::cerr << "Failed to create shader program"; return -1; }
vx_main_check == variant = "vxworks" /\ HostCheck

\* glGetAttribLocation(program, ...); glUseProgram(program); glDrawArrays(...);
\* eglSwapBuffers: the one frame of vx_main.
vx_main_render ==
    /\ variant = "vxworks"
    /\ hpc = "render"
    /\ hostCalls' = hostCalls \o <<HostCall("glGetAttribLocation", shaderProgram),
                                  HostCall("glUseProgram", shaderProgram),
                                  HostCall("glDrawArrays", shaderProgram)>>
    /\ frames' = frames + 1
    /\ hpc' = "sleep"
    /\ UNCHANGED <<buildVars, objs, shaderProgram, shouldClose, tick, exitCode>>

\* while (true) { taskDelay(60); }  The statements after the loop
\* (glDeleteProgram(program); eglDestroySurface ...; return 0;) have no way in.
vx_main_taskDelay ==
    /\ variant = "vxworks"
    /\ hpc = "sleep"
    /\ tick' = 1 - tick
    /\ UNCHANGED <<buildVars, objs, hpc, shaderProgram, shouldClose, frames, hostCalls,
                   exitCode>>

Host ==
    \/ main_setup \/ main_build \/ main_check \/ main_frame \/ main_cleanup
    \/ vx_main_setup \/ vx_main_build \/ vx_main_check \/ vx_main_render
    \/ vx_main_taskDelay

\* The whole program, from the entry of main / vx_main.
HostInit == InitCommon /\ hpc = "start"

HostNext == Host \/ Build

HostSpec == HostInit /\ [][HostNext]_vars

\* The program is one thread that keeps running: a step that can be taken is
\* taken.  A blocking driver call returns.
FairHostSpec == HostSpec /\ WF_vars(HostNext)

FairSpec == Spec /\ WF_vars(Build)

\* ------------------------------------------------------------- properties
Returned == pc = "returned"
InBuild == pc \notin {"idle", "returned"}

\* What the driver makes of the arguments of the current build.
VtxOk == Compiles(vtxSrc)
FragOk == Compiles(fragSrc)
LinkOk == Links({vtxSrc, fragSrc})

\* Objects created during the current build that are live.
MyShaders == {n \in LiveShaders : objs[n].build = builds}
MyPrograms == {n \in LivePrograms : objs[n].build = builds}
\* Diagnostics written during the current build.
MyDiags(kind) == {i \in DOMAIN stderr : stderr[i].build = builds /\ stderr[i].kind = kind}

CallsOf(fn) == {i \in DOMAIN calls : calls[i][1] = fn}

\* C1: when exactly one of the two stages fails to compile, the build returns
\* 0 with no shader object of this call still live and no program object
\* created.
C1_OneStageFails ==
    (Returned /\ VtxOk # FragOk) =>
        /\ ret = 0
        /\ MyShaders = {}
        /\ acct.prCreated = 0

\* C2: when both stages compile and the link status is false, the build
\* returns 0, exactly one link diagnostic is written, the program object is
\* destroyed and both shader objects are destroyed.
C2_LinkFails ==
    (Returned /\ VtxOk /\ FragOk /\ ~LinkOk) =>
        /\ ret = 0
        /\ Cardinality(MyDiags("link")) = 1
        /\ acct.prCreated = 1
        /\ acct.prDeleted = 1
        /\ MyPrograms = {}
        /\ acct.shDeleted = 2
        /\ MyShaders = {}

\* C3: when both stages compile and the link succeeds, the build returns a
\* nonzero handle of a live, linked program of this call, both shader objects
\* of the call are destroyed and no diagnostic was written.
C3_Success ==
    (Returned /\ VtxOk /\ FragOk /\ LinkOk) =>
        /\ ret # 0
        /\ ret \in MyPrograms
        /\ objs[ret].ok
        /\ acct.shCreated = 2
        /\ acct.shDeleted = 2
        /\ MyShaders = {}
        /\ MyDiags("compile") = {}
        /\ MyDiags("link") = {}

C3_Witness == Returned /\ VtxOk /\ FragOk /\ LinkOk /\ ret # 0 /\ builds > 1

\* C4: the returned handle is nonzero exactly when both compiles and the link
\* succeeded; a build that returns 0 leaves no live program object of its
\* own, and a nonzero handle names a live, linked program.
C4_Handle ==
    Returned =>
        /\ (ret # 0) <=> (VtxOk /\ FragOk /\ LinkOk)
        /\ ret = 0 => MyPrograms = {}
        /\ ret # 0 => (ret \in MyPrograms /\ objs[ret].ok)

C4_Witness == Returned /\ VtxOk /\ FragOk /\ ~LinkOk /\ ret = 0 /\ acct.prCreated = 1

LoggedFailures == {i \in DOMAIN acct.lens : acct.lens[i] > 1}

C6_Reported ==
    /\ Cardinality(MyDiags("compile")) + Cardinality(MyDiags("link")) = Len(acct.lens)
    /\ (pc = "cs_done" /\ ~success) => csRet = 0
    /\ (Returned /\ Len(acct.lens) > 0) => ret = 0

\* The host's calls of one GL function.
HostCallsOf(fn) == {i \in DOMAIN hostCalls : hostCalls[i][1] = fn}

\* The host uses only a live, nonzero handle, deletes it at most once and
\* after every other use, and makes no GL call on the program when the build
\* failed.
C7_Safe ==
    /\ \A i \in DOMAIN hostCalls : hostCalls[i][2] # 0 /\ hostCalls[i][3]
    /\ Cardinality(HostCallsOf("glDeleteProgram")) <= 1
    /\ \A i \in HostCallsOf("glDeleteProgram") : i = Len(hostCalls)
    /\ (hpc = "exit" /\ exitCode = -1) => hostCalls = <<>>
    /\ hpc \in {"render", "sleep"} => (shaderProgram # 0 /\ shaderProgram \in LivePrograms)

C8_Programs ==
    \A i, j \in DOMAIN rets :
        (rets[i] # 0 /\ rets[j] # 0) =>
            /\ rets[i] \in LivePrograms
            /\ objs[rets[i]].build = i
            /\ i # j => rets[i] # rets[j]

C8_OwnObjects ==
    \A n \in Names : (objs[n].live /\ ~objs'[n].live) => objs[n].build = builds

C8_Independent == []C8_Programs /\ [][C8_OwnObjects]_vars

C8_Witness ==
    /\ Len(rets) = 2
    /\ rets[1] # 0
    /\ rets[2] # 0
    /\ rets[1] # rets[2]
    /\ {rets[1], rets[2]} \subseteq LivePrograms

\* C9: a compile call creates exactly one shader object; with compile status
\* false it destroys that object and returns 0, with compile status true it
\* returns the nonzero handle of that live object.
C9_CompileStage ==
    pc = "cs_done" =>
        /\ csNew = 1
        /\ success = Compiles(StageSrc)
        /\ ~success => (csRet = 0 /\ shader \notin Live)
        /\ success => (csRet = shader /\ csRet # 0 /\ shader \in LiveShaders)
        /\ (shader \in LiveShaders) <=> (csRet # 0)

C9_Witness == pc = "cs_done" /\ ~success /\ stage = "fragment" /\ acct.shDeleted = 1

Phase ==
    CASE pc = "idle" -> "Start"
      [] pc \in {"cs_create", "cs_compile", "cs_test", "cs_done"} ->
            IF stage = "vertex" THEN "CompilingVertex" ELSE "CompilingFragment"
      [] pc \in {"guard", "create", "link", "linked", "cleanup"} -> "Linking"
      [] pc = "returned" -> IF ret # 0 THEN "Ready" ELSE "Failed"

PhaseStep ==
    \/ Phase' = Phase /\ builds' = builds
    \/ builds' = builds + 1 /\ Phase \in {"Start", "Ready", "Failed"} /\ Phase' = "CompilingVertex"
    \/ /\ builds' = builds
       /\ <<Phase, Phase'>> \in {<<"CompilingVertex", "CompilingFragment">>,
                                 <<"CompilingFragment", "Linking">>,
                                 <<"Linking", "Ready">>,
                                 <<"Linking", "Failed">>}

\* In the calls of the current build: a program object is created only after
\* both compiles, no shader is deleted after the program was created unless
\* the link status was queried before, and a finished build compiled both
\* stages.
CallOrder ==
    /\ \A i \in CallsOf("glCreateProgram") :
          Cardinality({j \in CallsOf("glGetShaderiv") : j < i}) >= 2
    /\ \A i \in CallsOf("glCreateProgram"), d \in CallsOf("glDeleteShader") :
          d > i => \E q \in CallsOf("glGetProgramiv") : i < q /\ q < d
    /\ Returned => Cardinality(CallsOf("glCompileShader")) = 2

\* C10: a build goes Start, CompilingVertex, CompilingFragment, Linking and
\* then Ready or Failed, and always gets there; the fragment stage is
\* compiled even after a vertex failure, the program object is created after
\* both compiles, and no shader is destroyed on the link path before the link
\* status was queried.
C10_Phases == [][PhaseStep]_vars /\ []CallOrder /\ (InBuild ~> Returned)

C10_Witness ==
    /\ Returned
    /\ ~VtxOk
    /\ ret = 0
    /\ Cardinality(CallsOf("glCompileShader")) = 2
====
